---- MODULE Spec2Model ----
(***************************************************************************)
(* A model of playground/pyramid.py: the Gaussian scale-space pyramid      *)
(* builder (build_scale_space_pyramid), the Difference-of-Gaussian         *)
(* generator (generate_DoG_pyramid) and the keypoint detector              *)
(* (detect_keypoints, detect_keypoints_in_image, is_local_extremum,        *)
(* is_edge_point).                                                         *)
(*                                                                         *)
(* The three functions are three state machines, SpecBuild, SpecDoG and    *)
(* SpecDetect.  In each, the variables of the other two stay idle.         *)
(*                                                                         *)
(* Numbers.  Pixels are numpy uint8 (cv2.IMREAD_GRAYSCALE, and             *)
(* cv2.GaussianBlur keeps the dtype), so pixel arithmetic is modulo 2^8.   *)
(* A sigma is held in tenths (16 is 1.6): doubling a float is exact, so    *)
(* the tenths are exact as well.                                           *)
(***************************************************************************)
EXTENDS Integers, Sequences, FiniteSets, TLC

VARIABLES
    \* ---- build_scale_space_pyramid ----
    image,                \* the caller's image: its shape [h, w]
    num_octaves,          \* argument
    num_scales,           \* argument
    downsampling_factor,  \* argument
    sigma0,               \* the sigma the caller passed (the code keeps no copy)
    sigma,                \* the parameter sigma, which the loop overwrites
    bpc,                  \* position: "octave", "scale", "done", "error", "idle"
    pyramid,              \* list of octaves
    current_image,        \* the seed image [h, w, level]
    octave_level,         \* outer loop index
    scale_level,          \* inner loop index
    octave,               \* the octave being filled
    blurs,                \* cv2.GaussianBlur calls that returned
    resizes,              \* cv2.resize calls that returned
    \* ---- generate_DoG_pyramid ----
    gaussian_pyramid,     \* argument: list of octaves of uint8 images
    dpc,                  \* position: "octave", "sub", "done", "idle"
    DoG_pyramid,          \* result under construction
    DoG_octave,           \* the octave being filled
    dOctave,              \* index of the octave the outer loop is at
    di,                   \* the inner loop's i
    \* ---- detect_keypoints ----
    dog,                  \* argument DoG_pyramid: list of octaves of uint8 images
    threshold,            \* argument
    kpc,                  \* position: "octave", "scan", "done", "error", "idle"
    kOctave,              \* enumerate index of the outer loop
    kScale,               \* enumerate index of the inner loop
    keypoints,            \* result under construction: list of <<i, j>>
    origin,               \* per keypoint, the [octave, scale] it was found at
    lastScan,             \* what the last detect_keypoints_in_image call did
    nep50                 \* the installed numpy promotes scalars as numpy 2 does

buildVars == <<image, num_octaves, num_scales, downsampling_factor, sigma0, sigma,
               bpc, pyramid, current_image, octave_level, scale_level, octave,
               blurs, resizes>>
dogVars == <<gaussian_pyramid, dpc, DoG_pyramid, DoG_octave, dOctave, di>>
detVars == <<dog, threshold, kpc, kOctave, kScale, keypoints, origin, lastScan,
             nep50>>
vars == <<buildVars, dogVars, detVars>>

(***************************************************************************)
(* Bounds of the inputs.                                                   *)
(***************************************************************************)
MaxImageDim == 5
MaxOctaves == 3
MaxScales == 3
MaxFactor == 2

\* sigma = 1.6, in tenths: the value line 62 resets the working sigma to.
ResetSigma10 == 16

\* Sigmas a caller may pass, in tenths: 0 (invalid), 1.0, 1.6 (the default).
Sigmas == {0, 10, ResetSigma10}

(***************************************************************************)
(* Idle values: the state of a function that is not running.               *)
(***************************************************************************)
BuildIdle ==
    /\ image = [h |-> 0, w |-> 0]
    /\ num_octaves = 0 /\ num_scales = 0 /\ downsampling_factor = 0
    /\ sigma0 = 0 /\ sigma = 0
    /\ bpc = "idle"
    /\ pyramid = <<>>
    /\ current_image = [h |-> 0, w |-> 0, level |-> 0]
    /\ octave_level = 0 /\ scale_level = 0
    /\ octave = <<>>
    /\ blurs = 0 /\ resizes = 0

DoGIdle ==
    /\ gaussian_pyramid = <<>>
    /\ dpc = "idle"
    /\ DoG_pyramid = <<>>
    /\ DoG_octave = <<>>
    /\ dOctave = 0
    /\ di = 0

\* The record of a detect_keypoints_in_image call, before any call.
NoScan == [octave |-> -1, scale |-> -1, images |-> {}, rows |-> {}, cols |-> {},
           tested |-> {}, passed |-> {}, contrast |-> {}, kept |-> {}]

DetIdle ==
    /\ dog = <<>>
    /\ threshold = 0
    /\ kpc = "idle"
    /\ kOctave = 0 /\ kScale = 0
    /\ keypoints = <<>>
    /\ origin = <<>>
    /\ lastScan = NoScan
    /\ nep50 = FALSE

(***************************************************************************)
(* build_scale_space_pyramid                                               *)
(***************************************************************************)

\* An image is empty when one of its sides is 0 (cv::Mat::empty, Size::empty).
IsEmpty(img) == img.h <= 0 \/ img.w <= 0

\* cv2.GaussianBlur(src, (0, 0), sigma) raises cv2.error on an empty source and
\* on sigma <= 0 (no kernel size can be derived from it).
GaussianBlurFails(src, s) == IsEmpty(src) \/ s <= 0

\* cv2.GaussianBlur returns an image of the source's shape; the model keeps which
\* seed it was blurred from and with which sigma instead of the pixel values.
GaussianBlur(src, s) == [h |-> src.h, w |-> src.w, seed |-> src.level, sigma |-> s]

\* A plausible slip: rounding the new side up.
NewSideCeil(side, factor) == (side + factor - 1) \div factor

\* int(side / factor) for side >= 0 and factor > 0: Python's true division, then
\* truncation toward zero.
NewSide(side, factor) == side \div factor

\* cv2.resize(src, (new_width, new_height)) raises cv2.error on an empty source
\* and on a destination size with a side <= 0.
ResizeFails(src, new_width, new_height) ==
    IsEmpty(src) \/ new_width <= 0 \/ new_height <= 0

InitBuild ==
    /\ image \in [h : 0..MaxImageDim, w : 0..MaxImageDim]
    /\ num_octaves \in 0..MaxOctaves
    /\ num_scales \in 0..MaxScales
    /\ downsampling_factor \in 0..MaxFactor
    /\ sigma0 \in Sigmas
    /\ sigma = sigma0
    /\ bpc = "octave"
    /\ pyramid = <<>>
    /\ current_image = [h |-> image.h, w |-> image.w, level |-> 0]
    /\ octave_level = 0
    /\ scale_level = 0
    /\ octave = <<>>
    /\ blurs = 0
    /\ resizes = 0
    /\ DoGIdle
    /\ DetIdle

\* for octave_level in range(num_octaves): octave = []
BuildOctave ==
    /\ bpc = "octave"
    /\ octave_level < num_octaves
    /\ octave' = <<>>
    /\ scale_level' = 0
    /\ bpc' = "scale"
    /\ UNCHANGED <<image, num_octaves, num_scales, downsampling_factor, sigma0,
                   sigma, pyramid, current_image, octave_level, blurs, resizes>>
    /\ UNCHANGED <<dogVars, detVars>>

\* One pass of the scale loop: blur the seed, append, double sigma.
BuildScale ==
    /\ bpc = "scale"
    /\ scale_level < num_scales
    /\ IF GaussianBlurFails(current_image, sigma)
       THEN /\ bpc' = "error"
            /\ UNCHANGED <<octave, sigma, scale_level, blurs>>
       ELSE /\ octave' = Append(octave, GaussianBlur(current_image, sigma))
            /\ sigma' = sigma * 2
            /\ scale_level' = scale_level + 1
            /\ blurs' = blurs + 1
            /\ bpc' = "scale"
    /\ UNCHANGED <<image, num_octaves, num_scales, downsampling_factor, sigma0,
                   pyramid, current_image, octave_level, resizes>>
    /\ UNCHANGED <<dogVars, detVars>>

\* After the scale loop: downsample the seed, reset sigma, append the octave.
BuildDownsample ==
    /\ bpc = "scale"
    /\ scale_level >= num_scales
    /\ IF downsampling_factor = 0
       THEN \* ZeroDivisionError
            /\ bpc' = "error"
            /\ UNCHANGED <<current_image, sigma, pyramid, octave_level, resizes>>
       ELSE LET new_width == NewSide(current_image.w, downsampling_factor)
                new_height == NewSide(current_image.h, downsampling_factor)
            IN  IF ResizeFails(current_image, new_width, new_height)
                THEN /\ bpc' = "error"
                     /\ UNCHANGED <<current_image, sigma, pyramid, octave_level,
                                    resizes>>
                ELSE /\ current_image' = [h |-> new_height, w |-> new_width,
                                          level |-> current_image.level + 1]
                     /\ resizes' = resizes + 1
                     /\ sigma' = ResetSigma10
                     /\ pyramid' = Append(pyramid, octave)
                     /\ octave_level' = octave_level + 1
                     /\ bpc' = "octave"
    /\ UNCHANGED <<image, num_octaves, num_scales, downsampling_factor, sigma0,
                   octave, scale_level, blurs>>
    /\ UNCHANGED <<dogVars, detVars>>

\* return pyramid
BuildReturn ==
    /\ bpc = "octave"
    /\ octave_level >= num_octaves
    /\ bpc' = "done"
    /\ UNCHANGED <<image, num_octaves, num_scales, downsampling_factor, sigma0,
                   sigma, pyramid, current_image, octave_level, scale_level,
                   octave, blurs, resizes>>
    /\ UNCHANGED <<dogVars, detVars>>

NextBuild == BuildOctave \/ BuildScale \/ BuildDownsample \/ BuildReturn

SpecBuild == InitBuild /\ [][NextBuild]_vars

(***************************************************************************)
(* Properties of build_scale_space_pyramid                                 *)
(***************************************************************************)

RECURSIVE Pow2(_)
Pow2(n) == IF n <= 0 THEN 1 ELSE 2 * Pow2(n - 1)

\* The inputs the contract calls valid.
ValidImage == image.h >= 1 /\ image.w >= 1
ValidConfig ==
    /\ num_octaves >= 1
    /\ num_scales >= 1
    /\ sigma0 > 0
    /\ downsampling_factor >= 1

\* q is floor(x / f), stated without division.
IsFloorOf(q, x, f) == q * f <= x /\ x < (q + 1) * f

\* C1: for a valid image and a valid configuration the builder returns (it
\* never ends in an error), and what it returns has exactly num_octaves
\* octaves of exactly num_scales images each, all images of an octave of one
\* width and height.
C1_ReturnsFullPyramid ==
    (ValidImage /\ ValidConfig) =>
        /\ bpc # "error"
        /\ bpc = "done" =>
            /\ Len(pyramid) = num_octaves
            /\ \A o \in 1..Len(pyramid) :
                /\ Len(pyramid[o]) = num_scales
                /\ \A s, t \in 1..Len(pyramid[o]) :
                    /\ pyramid[o][s].w = pyramid[o][t].w
                    /\ pyramid[o][s].h = pyramid[o][t].h

\* C2: the images of octave k+1 are floor(width_k / downsampling_factor) wide
\* and floor(height_k / downsampling_factor) high, width_k and height_k being
\* the width and height of the images of octave k.
C2_OctaveResolution ==
    \A k \in 1..(Len(pyramid) - 1) :
        \A s \in 1..Len(pyramid[k]) : \A t \in 1..Len(pyramid[k + 1]) :
            /\ IsFloorOf(pyramid[k + 1][t].w, pyramid[k][s].w, downsampling_factor)
            /\ IsFloorOf(pyramid[k + 1][t].h, pyramid[k][s].h, downsampling_factor)

\* C2's case: a returned pyramid whose second octave halves an odd width, 5.
C2_Witness ==
    /\ bpc = "done"
    /\ Len(pyramid) >= 2
    /\ num_scales >= 1
    /\ downsampling_factor = 2
    /\ pyramid[1][1].w = 5
    /\ pyramid[2][1].w = 2

\* C7: an invalid configuration or an empty image is rejected before anything
\* is built: no blur or resize runs and no pyramid is returned.
C7_InvalidRejectedFirst ==
    ~(ValidImage /\ ValidConfig) =>
        /\ bpc # "done"
        /\ blurs = 0
        /\ resizes = 0

\* C9: scale s of octave o is blurred with sigma0 * 2^s, for every octave and
\* every sigma0 > 0 the caller passes, from the seed image of octave o.
C9_SigmaSchedule ==
    sigma0 > 0 =>
        \A o \in 1..Len(pyramid) : \A s \in 1..Len(pyramid[o]) :
            /\ pyramid[o][s].sigma = sigma0 * Pow2(s - 1)
            /\ pyramid[o][s].seed = o - 1

(***************************************************************************)
(* generate_DoG_pyramid                                                    *)
(*                                                                         *)
(* An image is [h, w, px], px a function from the positions <<row, col>>,  *)
(* counted from 0 as in the code, to uint8 values.                         *)
(***************************************************************************)
MaxGOctaves == 2
MaxGScales == 3
MaxGWidth == 2

\* numpy uint8 holds 0..255 and its arithmetic wraps: 2^8.
Uint8Modulus == 256

\* The pixel values of the Gaussian images drawn.
GaussianPixels == {3, 200}

Positions(h, w) == (0..(h - 1)) \X (0..(w - 1))

\* octave[i + 1] - octave[i] on two uint8 arrays of one shape: numpy subtracts
\* element-wise in uint8, which wraps modulo 256.
Subtract(a, b) ==
    [h |-> a.h, w |-> a.w,
     px |-> [p \in Positions(a.h, a.w) |-> (a.px[p] - b.px[p]) % Uint8Modulus]]

GaussianImages(h, w) ==
    {[h |-> h, w |-> w, px |-> f] : f \in [Positions(h, w) -> GaussianPixels]}

InitDoG ==
    /\ \E n \in 1..MaxGScales, w \in 1..MaxGWidth, k \in 1..MaxGOctaves :
           gaussian_pyramid \in [1..k -> [1..n -> GaussianImages(1, w)]]
    /\ dpc = "octave"
    /\ DoG_pyramid = <<>>
    /\ DoG_octave = <<>>
    /\ dOctave = 0
    /\ di = 0
    /\ BuildIdle
    /\ DetIdle

\* for octave in gaussian_pyramid: DoG_octave = []
DoGOctave ==
    /\ dpc = "octave"
    /\ dOctave < Len(gaussian_pyramid)
    /\ DoG_octave' = <<>>
    /\ di' = 0
    /\ dpc' = "sub"
    /\ UNCHANGED <<gaussian_pyramid, DoG_pyramid, dOctave>>
    /\ UNCHANGED <<buildVars, detVars>>

\* for i in range(len(octave) - 1): DoG_octave.append(octave[i + 1] - octave[i])
DoGSubtract ==
    /\ dpc = "sub"
    /\ LET oct == gaussian_pyramid[dOctave + 1]
       IN  /\ di < Len(oct) - 1
           /\ DoG_octave' = Append(DoG_octave, Subtract(oct[di + 2], oct[di + 1]))
    /\ di' = di + 1
    /\ UNCHANGED <<gaussian_pyramid, dpc, DoG_pyramid, dOctave>>
    /\ UNCHANGED <<buildVars, detVars>>

\* DoG_pyramid.append(DoG_octave)
DoGAppend ==
    /\ dpc = "sub"
    /\ di >= Len(gaussian_pyramid[dOctave + 1]) - 1
    /\ DoG_pyramid' = Append(DoG_pyramid, DoG_octave)
    /\ dOctave' = dOctave + 1
    /\ dpc' = "octave"
    /\ UNCHANGED <<gaussian_pyramid, DoG_octave, di>>
    /\ UNCHANGED <<buildVars, detVars>>

\* return DoG_pyramid
DoGReturn ==
    /\ dpc = "octave"
    /\ dOctave >= Len(gaussian_pyramid)
    /\ dpc' = "done"
    /\ UNCHANGED <<gaussian_pyramid, DoG_pyramid, DoG_octave, dOctave, di>>
    /\ UNCHANGED <<buildVars, detVars>>

NextDoG == DoGOctave \/ DoGSubtract \/ DoGAppend \/ DoGReturn

SpecDoG == InitDoG /\ [][NextDoG]_vars

\* C3: the DoG pyramid has len(octave) - 1 images per octave, and image i is
\* the signed element-wise difference octave[i+1] - octave[i], negative where
\* octave[i+1] is the smaller, neither clamped nor wrapped.
C3_SignedDifference ==
    dpc = "done" =>
        /\ Len(DoG_pyramid) = Len(gaussian_pyramid)
        /\ \A o \in 1..Len(DoG_pyramid) :
            /\ Len(DoG_pyramid[o]) = Len(gaussian_pyramid[o]) - 1
            /\ \A i \in 1..Len(DoG_pyramid[o]) :
                \A p \in Positions(DoG_pyramid[o][i].h, DoG_pyramid[o][i].w) :
                    DoG_pyramid[o][i].px[p] =
                        gaussian_pyramid[o][i + 1].px[p] - gaussian_pyramid[o][i].px[p]

(***************************************************************************)
(* detect_keypoints                                                        *)
(*                                                                         *)
(* The DoG pyramid is what generate_DoG_pyramid hands over: per octave a   *)
(* list of uint8 images of one shape.  numpy's scalar arithmetic differs   *)
(* between numpy 1 and numpy 2 (NEP 50) and the repository pins neither,   *)
(* so nep50 is either.                                                     *)
(***************************************************************************)
MaxDetOctaves == 2
MaxDoGLen == 3
MaxDetHeight == 3
MaxDetWidth == 4

\* edge_threshold=10, the default of is_edge_point.
DefaultEdgeThreshold == 10

\* The values of the DoG pixels drawn: the level of an image, and of one spot.
DoGLevels == {0, 12}
SpotValues == {7, 24}

\* The factors by which the octaves of the pyramids drawn shrink: none, and
\* downsampling_factor=2, the default of build_scale_space_pyramid.
ShrinkFactors == {1, 2}

\* The contrast thresholds drawn.
Thresholds == {0, 10}

Abs(x) == IF x < 0 THEN -x ELSE x
Max(S) == CHOOSE x \in S : \A y \in S : y <= x
Min(S) == CHOOSE x \in S : \A y \in S : x <= y

\* range(a, b), as the list of its values.
PyRange(a, b) == [k \in 1..(b - a) |-> a + k - 1]

\* The indices a slice lo:hi selects from a sequence of n elements: a negative
\* bound counts from the end, and both are clipped to 0..n.
PyBound(k, n) == IF k < 0 THEN (IF k + n < 0 THEN 0 ELSE k + n)
                 ELSE (IF k > n THEN n ELSE k)
PySlice(lo, hi, n) == PyBound(lo, n)..(PyBound(hi, n) - 1)

\* An index k into n elements is valid from -n to n - 1; a negative one counts
\* from the end.
PyIndexOK(k, n) == -n <= k /\ k < n
Pixel(img, r, c) == img.px[<<r % img.h, c % img.w>>]

\* img[i-1:i+2, j-1:j+2]: the values of the patch, and its element [1, 1] when
\* the patch has one.
Patch(img, i, j) ==
    LET rows == PySlice(i - 1, i + 2, img.h)
        cols == PySlice(j - 1, j + 2, img.w)
        has == Cardinality(rows) >= 2 /\ Cardinality(cols) >= 2
    IN  [vals |-> {img.px[<<r, c>>] : r \in rows, c \in cols},
         has11 |-> has,
         v11 |-> IF has THEN img.px[<<Min(rows) + 1, Min(cols) + 1>>] ELSE 0]

\* A plausible slip: non-strict comparisons.
is_local_extremum_nonstrict(center, upper, lower) ==
    LET center_val == center.v11
    IN  IF center_val >= Max(upper.vals) \/ center_val <= Min(lower.vals)
        THEN "True"
        ELSE "False"

\* is_local_extremum: "True", "False", or "None" when the function falls off
\* its end.
is_local_extremum(center, upper, lower) ==
    LET center_val == center.v11
    IN  IF center_val > Max(upper.vals) \/ center_val < Min(lower.vals)
        THEN "True"
        ELSE IF center_val < Max(upper.vals) \/ center_val > Min(lower.vals)
             THEN "False"
             ELSE "None"

\* center[1, 1] raises IndexError on a patch without that element, np.max and
\* np.min raise ValueError on an empty patch.
ExtremumRaises(center, upper, lower) ==
    ~center.has11 \/ upper.vals = {} \/ lower.vals = {}

\* x ** 2 and x + y on numpy uint8 scalars: uint8 (wrapping) under NEP 50,
\* int64 before it.
ScalarSquare(x, np2) == IF np2 THEN (x * x) % Uint8Modulus ELSE x * x
ScalarAdd(x, y, np2) == IF np2 THEN (x + y) % Uint8Modulus ELSE x + y

\* np.sqrt(v) > t for an integer v >= 0.
SqrtGreater(v, t) == t < 0 \/ v > t * t

\* is_edge_point(img, i, j, edge_threshold): TRUE when the point is rejected.
\* A difference of two uint8 scalars is uint8 and wraps, in every numpy.
is_edge_point(img, i, j, edge_threshold, np2) ==
    LET dx == (Pixel(img, i + 1, j) - Pixel(img, i - 1, j)) % Uint8Modulus
        dy == (Pixel(img, i, j + 1) - Pixel(img, i, j - 1)) % Uint8Modulus
        sum == ScalarAdd(ScalarSquare(dx, np2), ScalarSquare(dy, np2), np2)
    IN  IF SqrtGreater(sum, edge_threshold) THEN FALSE ELSE TRUE

\* img[i+1, j], img[i-1, j], img[i, j+1], img[i, j-1]: IndexError on an index
\* that is not valid.
EdgeRaises(img, i, j) ==
    \/ ~PyIndexOK(i + 1, img.h) \/ ~PyIndexOK(i - 1, img.h)
    \/ ~PyIndexOK(j + 1, img.w) \/ ~PyIndexOK(j - 1, img.w)
    \/ ~PyIndexOK(i, img.h) \/ ~PyIndexOK(j, img.w)

\* A plausible slip: scanning to the border, range(0, n).
ScanRangeFull(n) == PyRange(0, n)

\* range(1, img.shape[k] - 1)
ScanRange(n) == PyRange(1, n - 1)

\* The pixels detect_keypoints_in_image visits, in its order: rows outside,
\* columns inside.
ScanOrder(img) ==
    LET rows == ScanRange(img.h)
        cols == ScanRange(img.w)
    IN  [k \in 1..(Len(rows) * Len(cols)) |->
            <<rows[((k - 1) \div Len(cols)) + 1], cols[((k - 1) % Len(cols)) + 1]>>]

\* The body of the pixel loop of detect_keypoints_in_image at pixel (i, j):
\* "raise" when it raises, "no_extremum" when is_local_extremum is not truthy,
\* "low_contrast" and "edge" for the two continue statements, "keep" when the
\* pixel is appended.  is_edge_point is called without an edge_threshold, so
\* with its default.
PixelLoopBody(img, prev_img, next_img, i, j, thr, np2) ==
    LET center == Patch(img, i, j)
        upper == Patch(prev_img, i, j)
        lower == Patch(next_img, i, j)
    IN  IF ExtremumRaises(center, upper, lower) THEN "raise"
        ELSE IF is_local_extremum(center, upper, lower) # "True" THEN "no_extremum"
        ELSE IF ~PyIndexOK(i, img.h) \/ ~PyIndexOK(j, img.w) THEN "raise"
        ELSE IF Abs(Pixel(img, i, j)) < thr THEN "low_contrast"
        ELSE IF EdgeRaises(img, i, j) THEN "raise"
        ELSE IF is_edge_point(img, i, j, DefaultEdgeThreshold, np2) THEN "edge"
        ELSE "keep"

\* What one detect_keypoints_in_image call did, from the pixels in scan order
\* and the outcome of the loop body at each: the keypoints it returns (kps),
\* whether it raises (err), the pixels it tested, those that passed
\* is_local_extremum, those that also passed the contrast filter, those it
\* kept, and the row and column indices it asked the images for.
ScanResult(scan, verdict) ==
    LET pixels == DOMAIN verdict
        Keeps(p) == verdict[p] = "keep"
    IN  [err |-> \E p \in pixels : verdict[p] = "raise",
         kps |-> SelectSeq(scan, Keeps),
         tested |-> pixels,
         passed |-> {p \in pixels : verdict[p] \in {"low_contrast", "edge", "keep"}},
         contrast |-> {p \in pixels : verdict[p] \in {"edge", "keep"}},
         kept |-> {p \in pixels : verdict[p] = "keep"},
         rows |-> UNION {(p[1] - 1)..(p[1] + 1) : p \in pixels},
         cols |-> UNION {(p[2] - 1)..(p[2] + 1) : p \in pixels}]

\* detect_keypoints_in_image(img, prev_img, next_img, threshold): the loop body
\* at every pixel of the scan.  (The outcomes are bound by a set so that they
\* are evaluated once.)
detect_keypoints_in_image(img, prev_img, next_img, thr, np2) ==
    LET scan == ScanOrder(img)
        pixels == {scan[k] : k \in 1..Len(scan)}
    IN  CHOOSE r \in {ScanResult(scan, verdict) :
                        verdict \in {[p \in pixels |->
                            PixelLoopBody(img, prev_img, next_img, p[1], p[2],
                                          thr, np2)]}} : TRUE

\* A plausible slip: octave_images[1:], which keeps the last image.
InteriorImagesToEnd(octave_images) == SubSeq(octave_images, 2, Len(octave_images))

\* octave_images[1:-1]
InteriorImages(octave_images) == SubSeq(octave_images, 2, Len(octave_images) - 1)

FlatImage(h, w, v) == [h |-> h, w |-> w, px |-> [p \in Positions(h, w) |-> v]]
SpotImage(h, w, v, at, u) ==
    [h |-> h, w |-> w, px |-> [p \in Positions(h, w) |-> IF p = at THEN u ELSE v]]

RECURSIVE Shrunk(_, _, _)
Shrunk(side, factor, times) ==
    IF times = 0 THEN side ELSE Shrunk(side \div factor, factor, times - 1)

\* The DoG pyramids drawn: n octaves of len images; octave k is h x w shrunk k
\* times by the factor f; every image is flat at level a, but image s, which is
\* at level b and carries value u at position at (when the octave has it).
InitDetect ==
    /\ \E n \in 1..MaxDetOctaves, len \in 0..MaxDoGLen,
          h \in 1..MaxDetHeight, w \in 1..MaxDetWidth, a \in DoGLevels, b \in DoGLevels :
       \E f \in (IF n = 1 THEN {1} ELSE ShrinkFactors),
          s \in (IF len = 0 THEN {1} ELSE 1..len),
          at \in Positions(h, w), u \in {b} \cup SpotValues :
        /\ Shrunk(h, f, n - 1) >= 1
        /\ Shrunk(w, f, n - 1) >= 1
        /\ dog = [k \in 1..n |->
                    [i \in 1..len |->
                        LET hk == Shrunk(h, f, k - 1)
                            wk == Shrunk(w, f, k - 1)
                        IN  IF i = s THEN SpotImage(hk, wk, b, at, u)
                                     ELSE FlatImage(hk, wk, a)]]
    /\ threshold \in Thresholds
    /\ nep50 \in BOOLEAN
    /\ kpc = "octave"
    /\ kOctave = 0
    /\ kScale = 0
    /\ keypoints = <<>>
    /\ origin = <<>>
    /\ lastScan = NoScan
    /\ BuildIdle
    /\ DoGIdle

\* for octave, octave_images in enumerate(DoG_pyramid):
DetOctave ==
    /\ kpc = "octave"
    /\ kOctave < Len(dog)
    /\ kScale' = 0
    /\ kpc' = "scan"
    /\ UNCHANGED <<dog, threshold, kOctave, keypoints, origin, lastScan, nep50>>
    /\ UNCHANGED <<buildVars, dogVars>>

\* One pass of: for scale, img in enumerate(octave_images[1:-1]), with the whole
\* detect_keypoints_in_image call and the extend of keypoints.
DetScan ==
    /\ kpc = "scan"
    /\ LET octave_images == dog[kOctave + 1]
           interior == InteriorImages(octave_images)
       IN  /\ kScale < Len(interior)
           /\ IF ~PyIndexOK(kScale, Len(octave_images))
                 \/ ~PyIndexOK(kScale + 2, Len(octave_images))
              THEN \* IndexError
                   /\ kpc' = "error"
                   /\ UNCHANGED <<keypoints, origin, lastScan, kScale>>
              ELSE LET img == interior[kScale + 1]
                       prev_img == octave_images[(kScale % Len(octave_images)) + 1]
                       next_img == octave_images[((kScale + 2) % Len(octave_images)) + 1]
                   IN  \E found \in {detect_keypoints_in_image(img, prev_img, next_img,
                                                          threshold, nep50)} :
                       /\ lastScan' = [octave |-> kOctave, scale |-> kScale + 1,
                                       images |-> {kScale, kScale + 1, kScale + 2},
                                       rows |-> found.rows, cols |-> found.cols,
                                       tested |-> found.tested,
                                       passed |-> found.passed,
                                       contrast |-> found.contrast,
                                       kept |-> found.kept]
                       /\ IF found.err
                          THEN /\ kpc' = "error"
                               /\ UNCHANGED <<keypoints, origin, kScale>>
                          ELSE /\ keypoints' = keypoints \o found.kps
                               /\ origin' = origin \o
                                     [k \in 1..Len(found.kps) |->
                                         [octave |-> kOctave, scale |-> kScale + 1]]
                               /\ kScale' = kScale + 1
                               /\ kpc' = "scan"
    /\ UNCHANGED <<dog, threshold, kOctave, nep50>>
    /\ UNCHANGED <<buildVars, dogVars>>

\* The inner loop is exhausted: on to the next octave.
DetOctaveEnd ==
    /\ kpc = "scan"
    /\ kScale >= Len(InteriorImages(dog[kOctave + 1]))
    /\ kOctave' = kOctave + 1
    /\ kpc' = "octave"
    /\ UNCHANGED <<dog, threshold, kScale, keypoints, origin, lastScan, nep50>>
    /\ UNCHANGED <<buildVars, dogVars>>

\* return keypoints
DetReturn ==
    /\ kpc = "octave"
    /\ kOctave >= Len(dog)
    /\ kpc' = "done"
    /\ UNCHANGED <<dog, threshold, kOctave, kScale, keypoints, origin, lastScan, nep50>>
    /\ UNCHANGED <<buildVars, dogVars>>

NextDetect == DetOctave \/ DetScan \/ DetOctaveEnd \/ DetReturn

SpecDetect == InitDetect /\ [][NextDetect]_vars

(***************************************************************************)
(* Properties of detect_keypoints                                          *)
(***************************************************************************)

\* The image the last detect_keypoints_in_image call scanned, and its octave.
LastOctave == dog[lastScan.octave + 1]
LastImage == LastOctave[lastScan.scale + 1]

\* C4: every keypoint was found at an interior scale of its DoG octave and at
\* an interior pixel of that octave's resolution, and the scan asks for no
\* scale image, row or column outside the octave (so nothing raises).
C4_InteriorOnly ==
    /\ kpc # "error"
    /\ \A k \in 1..Len(keypoints) :
        LET o == origin[k].octave
            m == origin[k].scale
        IN  /\ m >= 1
            /\ m <= Len(dog[o + 1]) - 2
            /\ keypoints[k][1] >= 1
            /\ keypoints[k][1] <= dog[o + 1][m + 1].h - 2
            /\ keypoints[k][2] >= 1
            /\ keypoints[k][2] <= dog[o + 1][m + 1].w - 2
    /\ lastScan.octave >= 0 =>
        /\ lastScan.images \subseteq 0..(Len(LastOctave) - 1)
        /\ lastScan.rows \subseteq 0..(LastImage.h - 1)
        /\ lastScan.cols \subseteq 0..(LastImage.w - 1)

\* C4's case: the detector returned keypoints, one of them from the second
\* octave.
C4_Witness ==
    /\ kpc = "done"
    /\ \E k \in 1..Len(keypoints) : origin[k].octave = 1

\* The values of the 3x3 neighbourhood of (i, j) in an image.
Neighbourhood(img, i, j) ==
    {img.px[<<r, c>>] : r \in (i - 1)..(i + 1), c \in (j - 1)..(j + 1)}

\* The center is strictly greater than every value of both neighbouring
\* neighbourhoods, or strictly smaller than every one.
StrictExtremum(octave_images, m, i, j) ==
    LET c == octave_images[m + 1].px[<<i, j>>]
        both == Neighbourhood(octave_images[m], i, j)
                    \cup Neighbourhood(octave_images[m + 2], i, j)
    IN  (\A v \in both : c > v) \/ (\A v \in both : c < v)

\* C5: a pixel passes the extremum test exactly when it is a strict extremum
\* of the 3x3 neighbourhoods in both adjacent scales.
C5_StrictExtremumTest ==
    lastScan.octave >= 0 =>
        \A p \in lastScan.tested :
            (p \in lastScan.passed) <=>
                StrictExtremum(LastOctave, lastScan.scale, p[1], p[2])

\* C6: an octave of fewer than 3 DoG images contributes no keypoint and no
\* error; when every octave is that short the result is empty.
C6_ShortOctaves ==
    /\ \A k \in 1..Len(keypoints) : Len(dog[origin[k].octave + 1]) >= 3
    /\ (\A o \in 1..Len(dog) : Len(dog[o]) < 3) =>
        /\ keypoints = <<>>
        /\ kpc # "error"

\* C6's case: a finished run over octaves of 2 DoG images (numScales = 3) that
\* have interior pixels.
C6_Witness ==
    /\ kpc = "done"
    /\ Len(dog) = 2
    /\ \A o \in 1..Len(dog) : Len(dog[o]) = 2 /\ dog[o][1].h >= 3 /\ dog[o][1].w >= 3

\* Every pixel of every image of the pyramid has one value.
Uniform ==
    \A o \in 1..Len(dog) : \A i \in 1..Len(dog[o]) :
        \A p \in Positions(dog[o][i].h, dog[o][i].w) :
            dog[o][i].px[p] = dog[1][1].px[<<0, 0>>]

\* C8: on a uniform pyramid no pixel passes the extremum test and the result
\* is empty, whatever the contrast threshold.
C8_UniformNoKeypoints ==
    Uniform =>
        /\ keypoints = <<>>
        /\ lastScan.passed = {}
        /\ kpc # "error"

\* C8's case: a finished run over an all-zero pyramid of two octaves whose
\* interior pixels were tested, with a threshold <= 0.
C8_Witness ==
    /\ kpc = "done"
    /\ Uniform
    /\ Len(dog) = 2
    /\ lastScan.octave = 1
    /\ lastScan.tested # {}
    /\ LastImage.px[<<0, 0>>] = 0
    /\ threshold <= 0

\* sqrt(dx^2 + dy^2) > t with the signed integer differences.
TrueGradientAbove(img, i, j, t) ==
    LET dx == img.px[<<i + 1, j>>] - img.px[<<i - 1, j>>]
        dy == img.px[<<i, j + 1>>] - img.px[<<i, j - 1>>]
    IN  SqrtGreater(dx * dx + dy * dy, t)

\* C10: a pixel that passed the extremum test and the contrast filter is
\* appended exactly when sqrt(dx^2 + dy^2) > edgeThreshold (10), dx and dy
\* being the signed integer differences, and rejected otherwise.
C10_EdgeFilter ==
    lastScan.octave >= 0 =>
        \A p \in lastScan.contrast :
            (p \in lastScan.kept) <=>
                TrueGradientAbove(LastImage, p[1], p[2], DefaultEdgeThreshold)

====
